---------------------------- MODULE Spec2Model ----------------------------
(***************************************************************************)
(* The openssh_loee launcher (packaging/openssh_loee/__init__.py):         *)
(* ssh_path() joins the package directory with "bin" and "ssh"; main()     *)
(* checks that the path is a regular file, reports and exits with status 1 *)
(* when it is not, and otherwise replaces the process with os.execvp.      *)
(*                                                                         *)
(* Strings that the code takes apart or builds (paths, the diagnostic) are *)
(* sequences of one-character strings, so that os.path.dirname,            *)
(* os.path.join and the f-string are computed character by character.      *)
(* Command-line arguments are only copied, so each one is an atom.         *)
(***************************************************************************)
EXTENDS Integers, Sequences, FiniteSets

VARIABLES
    file__,     \* __file__ of the package's __init__.py
    sys_argv,   \* sys.argv
    environ,    \* os.environ
    cwd,        \* the current working directory
    fsPath,     \* the one path of the file system that may hold an object
    fsKind,     \* what is there: "none", "dir", "file" (not executable), "xfile"
    pc,         \* position in main()
    binary,     \* main's local variable
    stdout,     \* characters written to sys.stdout
    stderr,     \* characters written to sys.stderr
    status,     \* <<>>, or <<n>> once sys.exit(n) has ended the process
    image,      \* <<>>, or <<program>> once execv has replaced the process
    exception,  \* <<>>, or <<errno>> once an OSError left main()
    trace,      \* the calls made so far: [op, path]
    checked,    \* <<>>, or <<result>> of the os.path.isfile call
    argv0,      \* sys.argv at entry of main()
    environ0    \* os.environ at entry of main()

vars == <<file__, sys_argv, environ, cwd, fsPath, fsKind, pc, binary, stdout,
          stderr, status, image, exception, trace, checked, argv0, environ0>>

-----------------------------------------------------------------------------
(* Bounds of the model *)

MaxFileLen == 4
MaxArgs == 2

-----------------------------------------------------------------------------
(* Input domains *)

Sep == "/"

PathChars == {"/", "p", "i"}

\* Absolute file names of at most MaxFileLen characters: the import system
\* gives a package's __init__ module an absolute __file__.
Files ==
    UNION { { <<Sep>> \o s : s \in { t \in [1..n -> PathChars] : t[n] /= Sep } }
            : n \in 1..(MaxFileLen - 1) }

\* An option, a string with embedded whitespace, a string of shell
\* metacharacters.
ArgStrings == {"-V", "a b", "$(x);"}

ArgLists == UNION { [1..n -> ArgStrings] : n \in 0..MaxArgs }

Environs == { [PATH |-> << >>], [PATH |-> << <<"/", "p">> >>] }

Cwds == { <<"/">>, <<"/", "p">> }

FsKinds == {"none", "dir", "file", "xfile"}

-----------------------------------------------------------------------------
(* os.path *)

\* posixpath.dirname: everything up to the last separator, with trailing
\* separators stripped unless the head consists of separators only.
LastSep(p) ==
    LET idx == { i \in 1..Len(p) : p[i] = Sep }
    IN  IF idx = {} THEN 0 ELSE CHOOSE i \in idx : \A j \in idx : j <= i

RECURSIVE RStripSep(_)
RStripSep(s) ==
    IF s /= << >> /\ s[Len(s)] = Sep THEN RStripSep(SubSeq(s, 1, Len(s) - 1))
    ELSE s

Dirname(p) ==
    LET head == SubSeq(p, 1, LastSep(p))
    IN  IF head /= << >> /\ \E i \in 1..Len(head) : head[i] /= Sep
        THEN RStripSep(head)
        ELSE head

\* posixpath.join of two components.
PathJoin(a, b) ==
    IF b /= << >> /\ b[1] = Sep THEN b
    ELSE IF a = << >> \/ a[Len(a)] = Sep THEN a \o b
    ELSE a \o <<Sep>> \o b

-----------------------------------------------------------------------------
(* The module's functions *)

bin_dir_cwd == PathJoin(cwd, <<"b", "i", "n">>)

bin_dir == PathJoin(Dirname(file__), <<"b", "i", "n">>)

ssh_path == PathJoin(bin_dir, <<"s", "s", "h">>)

-----------------------------------------------------------------------------
(* The file system and the process *)

\* os.path.isfile
IsFile(p) == p = fsPath /\ fsKind \in {"file", "xfile"}

\* The result of execv(p, ...): "ok" replaces the process image.
Execv(p) ==
    IF p = fsPath /\ fsKind = "xfile" THEN "ok"
    ELSE IF p = fsPath /\ fsKind \in {"file", "dir"} THEN "EACCES"
    ELSE "ENOENT"

\* os._execvpe: a file name with a directory part is executed as it is, any
\* other is looked up in the directories of PATH, in order.
ExecCandidates(f, env) ==
    IF Dirname(f) /= << >> THEN << f >>
    ELSE [ i \in 1..Len(env.PATH) |-> PathJoin(env.PATH[i], f) ]

ExecFile_Bare(b) == <<"s", "s", "h">>

\* The program main() hands to os.execvp.
ExecFile(b) == b

ForwardedArgv_WholeArgv(b, argv) == << b >> \o argv

ForwardedArgv_Name(b, argv) == << <<"s", "s", "h">> >> \o Tail(argv)

\* The argument vector main() hands to os.execvp.
ForwardedArgv(b, argv) == << b >> \o Tail(argv)

ExecEnv_Cleared(env) == [PATH |-> << >>]

\* os.execvp passes no environment: the new image inherits os.environ.
ExecEnv(env) == env

ErrorPrefix ==
    << "E", "r", "r", "o", "r", ":", " ", "s", "s", "h", " ",
       "b", "i", "n", "a", "r", "y", " ", "n", "o", "t", " ",
       "f", "o", "u", "n", "d", " ", "a", "t", " " >>

Diagnostic_NoPath(b) == ErrorPrefix

\* f"Error: ssh binary not found at {binary}"
Diagnostic(b) == ErrorPrefix \o b

PrintLine_NoNewline(stream, text) == stream \o text

\* print(text, file=stream)
PrintLine(stream, text) == stream \o text \o << "\n" >>

ExitStatus == 1

Event(op, p) == [op |-> op, path |-> p]

-----------------------------------------------------------------------------
(* The state machine *)

Init ==
    /\ file__ \in Files
    /\ \E args \in ArgLists : sys_argv = << "loee-ssh" >> \o args
    /\ environ \in Environs
    /\ cwd \in Cwds
    /\ fsPath = ssh_path
    /\ fsKind \in FsKinds
    /\ pc = "start"
    /\ binary = << >>
    /\ stdout = << >>
    /\ stderr = << >>
    /\ status = << >>
    /\ image = << >>
    /\ exception = << >>
    /\ trace = << >>
    /\ checked = << >>
    /\ argv0 = sys_argv
    /\ environ0 = environ

\* line 20: binary = ssh_path()
Resolve ==
    /\ pc = "start"
    /\ binary' = ssh_path
    /\ trace' = Append(trace, Event("ssh_path", ssh_path))
    /\ pc' = "check"
    /\ UNCHANGED <<file__, sys_argv, environ, cwd, fsPath, fsKind, stdout,
                   stderr, status, image, exception, checked, argv0, environ0>>

\* line 21: if not os.path.isfile(binary)
Check ==
    /\ pc = "check"
    /\ trace' = Append(trace, Event("isfile", binary))
    /\ checked' = << IsFile(binary) >>
    /\ pc' = IF IsFile(binary) THEN "exec" ELSE "report"
    /\ UNCHANGED <<file__, sys_argv, environ, cwd, fsPath, fsKind, binary,
                   stdout, stderr, status, image, exception, argv0, environ0>>

\* line 22: print(f"Error: ssh binary not found at {binary}", file=sys.stderr)
Report ==
    /\ pc = "report"
    /\ stderr' = PrintLine(stderr, Diagnostic(binary))
    /\ trace' = Append(trace, Event("print", << >>))
    /\ pc' = "exit"
    /\ UNCHANGED <<file__, sys_argv, environ, cwd, fsPath, fsKind, binary,
                   stdout, status, image, exception, checked,
                   argv0, environ0>>

\* line 23: sys.exit(1)
Exit ==
    /\ pc = "exit"
    /\ status' = << ExitStatus >>
    /\ trace' = Append(trace, Event("exit", << >>))
    /\ pc' = "exited"
    /\ UNCHANGED <<file__, sys_argv, environ, cwd, fsPath, fsKind, binary,
                   stdout, stderr, image, exception, checked,
                   argv0, environ0>>

\* line 24: os.execvp(binary, [binary] + sys.argv[1:])
Exec ==
    /\ pc = "exec"
    /\ LET cands == ExecCandidates(ExecFile(binary), environ)
           good  == { i \in 1..Len(cands) : Execv(cands[i]) = "ok" }
           hard  == { i \in 1..Len(cands) : Execv(cands[i]) = "EACCES" }
           first(S) == CHOOSE i \in S : \A j \in S : i <= j
           tried == IF good = {} THEN Len(cands) ELSE first(good)
       IN  /\ trace' = trace \o [ i \in 1..tried |-> Event("execv", cands[i]) ]
           /\ IF good /= {}
              THEN /\ image' = << [ file |-> cands[first(good)],
                                    argv |-> ForwardedArgv(binary, sys_argv),
                                    env  |-> ExecEnv(environ) ] >>
                   /\ pc' = "replaced"
                   /\ UNCHANGED exception
              ELSE /\ exception' =
                          << IF hard /= {} THEN "EACCES" ELSE "ENOENT" >>
                   /\ pc' = "raised"
                   /\ UNCHANGED image
    /\ UNCHANGED <<file__, sys_argv, environ, cwd, fsPath, fsKind, binary,
                   stdout, stderr, status, checked, argv0, environ0>>

\* Another process removes the object while the launcher is running.
Unlink ==
    /\ pc \in {"start", "check", "report", "exit", "exec"}
    /\ fsKind /= "none"
    /\ fsKind' = "none"
    /\ UNCHANGED <<file__, sys_argv, environ, cwd, fsPath, pc, binary, stdout,
                   stderr, status, image, exception, trace, checked, argv0,
                   environ0>>

Next == Resolve \/ Check \/ Report \/ Exit \/ Exec \/ Unlink

Spec == Init /\ [][Next]_vars

-----------------------------------------------------------------------------
(* Vocabulary of the properties *)

\* t occurs in s as a contiguous run of characters.
Contains(s, t) ==
    \E i \in 0..(Len(s) - Len(t)) : SubSeq(s, i + 1, i + Len(t)) = t

Calls(op) == { i \in 1..Len(trace) : trace[i].op = op }

Newlines(s) == { i \in 1..Len(s) : s[i] = "\n" }

\* The installed package location: the directory that holds __init__.py.
PackageDir == Dirname(file__)

\* PackageDir/bin/ssh, written out: one separator between the location and
\* "bin" (none is added after a location that is a root of separators).
BundledPath ==
    IF PackageDir[Len(PackageDir)] = Sep
    THEN PackageDir \o <<"b", "i", "n", "/", "s", "s", "h">>
    ELSE PackageDir \o <<"/", "b", "i", "n", "/", "s", "s", "h">>

\* main() has nothing left to do.
Ended == pc \in {"exited", "replaced", "raised"}

-----------------------------------------------------------------------------
(* Properties *)

\* C1: whenever main() replaces the process, the replaced program's argument
\* vector is the binary path followed by the caller's arguments sys.argv[1:],
\* same count, same order, same strings; the launcher's own argv[0] is not
\* forwarded.
C1_ArgvForwarded ==
    image /= << >> =>
        LET a == image[1].argv
        IN  /\ Len(a) = Len(argv0)
            /\ a[1] = binary
            /\ a[1] = image[1].file
            /\ \A i \in 2..Len(argv0) : a[i] = argv0[i]
            /\ \A i \in 1..Len(a) : a[i] /= argv0[1]

\* A replacement with two caller arguments, one with embedded whitespace and
\* one of shell metacharacters.
C1_Witness ==
    /\ image /= << >>
    /\ argv0 = << "loee-ssh", "a b", "$(x);" >>
    /\ image[1].argv = << binary, "a b", "$(x);" >>

\* C2: when the computed path is not a regular file at the check, process
\* replacement is never attempted, the run goes on to sys.exit, and at the
\* exit the status is 1 and the error stream holds a non-empty message that
\* contains the computed path.
C2_MissingBinaryFails ==
    checked = << FALSE >> =>
        /\ image = << >>
        /\ Calls("execv") = {}
        /\ pc \in {"report", "exit", "exited"}
        /\ pc = "report" => ENABLED Report
        /\ pc = "exit" => ENABLED Exit
        /\ pc \in {"exit", "exited"} =>
              stderr /= << >> /\ Contains(stderr, binary)
        /\ pc = "exited" => status = << 1 >>
        /\ status /= << >> => pc = "exited"

\* The launcher has exited after finding a directory where the binary
\* should be.
C2_Witness ==
    /\ pc = "exited"
    /\ checked = << FALSE >>
    /\ fsKind = "dir"
    /\ status = << 1 >>

\* C3: a missing or non-regular-file binary is the only failure the launcher
\* can end in: whenever the check found a regular file, the run ends with
\* the process image replaced by the binary.
C3_OnlyFailure ==
    (checked = << TRUE >> /\ Ended) => (pc = "replaced" /\ exception = << >>)

\* C4: for every installed package location P, ssh_path() is exactly
\* P/bin/ssh, an absolute path, whatever the working directory, the
\* environment, the caller's arguments and the file system are; every call
\* returns that value.
C4_SshPath ==
    /\ ssh_path = BundledPath
    /\ ssh_path[1] = Sep
    /\ \A i \in Calls("ssh_path") : trace[i].path = BundledPath
    /\ pc /= "start" => binary = BundledPath

\* main() has called ssh_path() for a package in /p while the working
\* directory is elsewhere.
C4_Witness ==
    /\ file__ = <<"/", "p", "/", "i">>
    /\ cwd = <<"/">>
    /\ environ.PATH /= << >>
    /\ Len(sys_argv) > 1
    /\ binary = <<"/", "p", "/", "b", "i", "n", "/", "s", "s", "h">>

\* C5: every run of main() ends in exactly one of two outcomes: the process
\* terminated with status 1 on the missing-binary path, or the process image
\* replaced by the binary.
C5_TwoOutcomes ==
    Ended =>
        \/ status = << 1 >> /\ checked = << FALSE >> /\ image = << >>
        \/ status = << >> /\ image /= << >>

C7_Frame ==
    /\ environ = environ0
    /\ sys_argv = argv0
    /\ image /= << >> =>
          /\ image[1].env = environ0
          /\ stdout = << >>
          /\ stderr = << >>

\* A replacement in a process whose environment sets PATH.
C7_Witness ==
    /\ image /= << >>
    /\ environ0.PATH /= << >>
    /\ Len(argv0) > 1

\* C8: the existence check happens exactly once and before any exec, the
\* exec is attempted at most once, and the only file ever executed is the
\* one at the computed path, which contains a separator, so that os.execvp
\* never searches PATH.
C8_OnceNoFallback ==
    /\ Cardinality(Calls("isfile")) = (IF pc \in {"start", "check"} THEN 0 ELSE 1)
    /\ Cardinality(Calls("execv")) <= 1
    /\ pc \in {"replaced", "raised"} => Cardinality(Calls("execv")) = 1
    /\ \A e \in Calls("execv") :
          /\ \E c \in Calls("isfile") : c < e
          /\ trace[e].path = binary
          /\ trace[e].path = BundledPath
    /\ pc /= "start" => \E i \in 1..Len(binary) : binary[i] = Sep
    /\ image /= << >> => image[1].file = binary

\* The one exec was attempted, failed, and was not retried, with a PATH that
\* a search could have used.
C8_Witness ==
    /\ pc = "raised"
    /\ Cardinality(Calls("execv")) = 1
    /\ environ.PATH /= << >>

\* C9: the path tested for existence, the path in the diagnostic, the
\* program passed to exec and the first element of the forwarded argument
\* vector are the one value computed at the start of main(), which is
\* computed once and never changes.
C9_SinglePath ==
    /\ Cardinality(Calls("ssh_path")) = (IF pc = "start" THEN 0 ELSE 1)
    /\ pc /= "start" =>
          /\ trace[1].op = "ssh_path"
          /\ binary = trace[1].path
          /\ \A i \in Calls("isfile") : trace[i].path = trace[1].path
          /\ \A i \in Calls("execv") : trace[i].path = trace[1].path
          /\ stderr /= << >> => stderr = ErrorPrefix \o trace[1].path \o << "\n" >>
          /\ image /= << >> =>
                /\ image[1].file = trace[1].path
                /\ image[1].argv[1] = trace[1].path

\* The process was replaced after the check of the same path.
C9_Witness ==
    /\ image /= << >>
    /\ Calls("isfile") /= {}
    /\ image[1].argv[1] = image[1].file
    /\ image[1].file = <<"/", "b", "i", "n", "/", "s", "s", "h">>

=============================================================================
